---------------------------- MODULE Spec2Model ----------------------------
(***************************************************************************)
(* Asynchronous client communication core of the BrawlGPT dashboard:       *)
(*   - usePlayerData   (hooks/usePlayerData.ts, the query coordinator)     *)
(*   - sendChatMessageStream (services/api.ts, the streaming reader)       *)
(*   - useWebSocket    (hooks/useWebSocket.ts, the connection manager)     *)
(* The three components share no state; each has its own specification     *)
(* (SpecQuery, SpecStream, SpecFeed and SpecChannel) over the variables it *)
(* owns.                                                                   *)
(*                                                                         *)
(* Text is modelled as a sequence of one-character strings, so that        *)
(* trimming, splitting and prefix tests are computed, not assumed.         *)
(***************************************************************************)
EXTENDS Integers, Sequences, FiniteSets, TLC

VARIABLES
    \* ---- usePlayerData ----
    qstate,            \* useState: [result, loading, error]
    lastTag,           \* lastTagRef.current
    abortController,   \* abortControllerRef.current: "null" | "live" | "aborted"
    debounceTimerRef,  \* debounceTimerRef.current: 0 (null) or a timer id
    timers,            \* pending setTimeout callbacks: [id, tag]
    inflight,          \* getPlayerAnalysis calls awaiting their fetch: [sid, tag, url]
    mounted,           \* the component is mounted
    pendingPromises,   \* the searches (by call number) whose returned promise
                       \*   has not settled
    ops,               \* history: the calls made on the hook, in order, each with
                       \*   quiet: the previous debounce timer was still pending,
                       \*   busy:  a network call was still in flight
    dispatchLog,       \* history: the getPlayerAnalysis calls made, in order
    lastOutcome,       \* history: how the call of the latest search settled, if it has
    lastCall,          \* history: the latest call made on the hook
    lastSuccess,       \* history: the input, without its blanks, of the call that
                       \*   succeeded last since the last reset(), NoTag if none
    \* ---- sendChatMessageStream (one invocation) ----
    spc,               \* "idle" | "fetching" | "reading" | "resolved" | "rejected"
    response,          \* the response's [ok, status]
    rest,              \* the part of the response body not yet delivered by read()
    events,            \* history: the callbacks invoked, in order: [cb, arg]
    script,            \* history: the events the server wrote into the body
    errorFieldSeen,    \* history: a parsed line had a truthy error field
    \* ---- ChatInterface ----
    messages,          \* useState messages, the transcript: [role, content]
    isLoading,         \* useState isLoading
    streamingMessage,  \* useState streamingMessage
    closureStreamingMessage,
                       \* the value of streamingMessage in the render whose
                       \*   handleSend made the callbacks of the invocation
    \* ---- useWebSocket ----
    userId,            \* the hook's argument: NoUser (null) or a user
    hookMounted,       \* the component using the hook is mounted
    sockets,           \* the WebSocket objects created so far: [user, readyState]
    ws,                \* ws.current: 0 (null) or an index into sockets
    isConnected,       \* useState isConnected
    reconnectTimeout,  \* reconnectTimeout.current: 0 (null) or a timer id
    reconnectTimers,   \* pending reconnect timeouts: [id, user]
    pingInterval,      \* pingInterval.current: 0 (null) or an interval id
    pingTimers,        \* active keep-alive intervals (ids)
    notifications,     \* useState notifications, newest first
    pinged,            \* history: the sockets a "ping" was sent on
    nReceived,         \* history: notification frames delivered so far
    nEdits,            \* history: clearNotifications/removeNotification calls
    lastData,          \* history: the data of the last frame delivered
    receivedFor        \* history: for each notification frame delivered, in
                       \*   order, the user of the channel it arrived on

qvars == <<qstate, lastTag, abortController, debounceTimerRef, timers,
           inflight, mounted, pendingPromises, ops, dispatchLog, lastOutcome,
           lastCall, lastSuccess>>

svars == <<spc, response, rest, events, script, errorFieldSeen>>

wvars == <<userId, hookMounted, sockets, ws, isConnected, reconnectTimeout,
           reconnectTimers, pingInterval, pingTimers, notifications,
           pinged, nReceived, nEdits, lastData,
           receivedFor>>

cvars == <<messages, isLoading, streamingMessage, closureStreamingMessage>>

vars == <<qvars, svars, cvars, wvars>>

\* what each component's steps leave alone
nonQuery == <<svars, cvars, wvars>>
nonStream == <<qvars, cvars, wvars>>
nonChat == <<qvars, wvars>>
nonChannel == <<qvars, svars, cvars>>

-----------------------------------------------------------------------------
(* Bounds *)

MaxOps == 3          \* search/refresh/reset calls and unmounts in one behaviour
MaxSends == 2
MaxEvents == 2       \* server-sent events in one response body
MaxFrames == 52      \* notification frames delivered in one behaviour of SpecFeed
MaxEdits == 1        \* clearNotifications/removeNotification calls in one behaviour
MaxSockets == 2      \* WebSocket objects created in one behaviour
MaxChannelFrames == 1 \* notification frames delivered in one behaviour of SpecChannel

-----------------------------------------------------------------------------
(* Text helpers *)

RECURSIVE TrimLeft(_)
TrimLeft(s) ==
    IF s = <<>> THEN s
    ELSE IF Head(s) = " " THEN TrimLeft(Tail(s)) ELSE s

RECURSIVE TrimRight(_)
TrimRight(s) ==
    IF s = <<>> THEN s
    ELSE IF s[Len(s)] = " " THEN TrimRight(SubSeq(s, 1, Len(s) - 1)) ELSE s

\* a trim that removes nothing
TrimIdentity(s) == s

\* String.prototype.trim
Trim(s) == TrimRight(TrimLeft(s))

\* String.prototype.toUpperCase on the letters the model uses
UpperChar(c) ==
    CASE c = "a" -> "A"
      [] c = "b" -> "B"
      [] OTHER   -> c

ToUpperCase(s) == [i \in 1..Len(s) |-> UpperChar(s[i])]

\* String.prototype.replace("#", ""): the first occurrence only
RECURSIVE ReplaceFirstHash(_)
ReplaceFirstHash(s) ==
    IF s = <<>> THEN s
    ELSE IF Head(s) = "#" THEN Tail(s)
    ELSE <<Head(s)>> \o ReplaceFirstHash(Tail(s))

\* services/api.ts cleanTag
CleanTag(tag) == Trim(ReplaceFirstHash(ToUpperCase(tag)))

-----------------------------------------------------------------------------
(* usePlayerData: values *)

NoTag == <<"<null>">>        \* a null tag / null result (no tag is a 1-char text)
NoError == "<null>"

ValidationMsg == "Please enter a player tag"

\* The raw inputs a user types: empty, blank, plain, padded, '#'-only
RawInputs ==
    { <<>>, <<" ">>, <<"a">>, <<" ", "b", " ">>, <<"#">> }

\* What the fetch of one call can do (no AbortSignal is passed to fetch, so an
\* abort rejection is not among them)
HttpErrorStatuses == {400, 404, 429, 500}
FetchOutcomes ==
    { [kind |-> "ok", status |-> 200] }
    \cup { [kind |-> "http", status |-> s] : s \in HttpErrorStatuses }
    \cup { [kind |-> "typeerror_fetch", status |-> 0],   \* TypeError "Failed to fetch"
           [kind |-> "typeerror_other", status |-> 0] }  \* TypeError "Load failed"

InitialQState == [result |-> NoTag, loading |-> FALSE, error |-> NoError]

\* services/api.ts getPlayerAnalysis, from the fetch outcome to what the
\* returned promise does: a value, or a thrown ApiError (whose name is
\* "ApiError" whatever the cause: the catch wraps every other error)
GetPlayerAnalysis(url, o) ==
    CASE o.kind = "ok" ->
            [ok |-> TRUE, data |-> url, name |-> "", statusCode |-> 200, message |-> ""]
      [] o.kind = "http" ->
            [ok |-> FALSE, data |-> NoTag, name |-> "ApiError",
             statusCode |-> o.status, message |-> "detail"]
      [] o.kind = "typeerror_fetch" ->
            [ok |-> FALSE, data |-> NoTag, name |-> "ApiError", statusCode |-> 0,
             message |-> "Unable to connect to server. Please check your connection."]
      [] OTHER ->
            [ok |-> FALSE, data |-> NoTag, name |-> "ApiError", statusCode |-> 500,
             message |-> "Load failed"]

\* getPlayerAnalysis on a tag that cleans to nothing: thrown before any fetch
EmptyTagError ==
    [ok |-> FALSE, data |-> NoTag, name |-> "ApiError", statusCode |-> 400,
     message |-> "Player tag cannot be empty"]

\* a catch block that shows every failure's own message
ErrorMessageRaw(err) == err.message

\* usePlayerData: the catch block's message
ErrorMessage(err) ==
    CASE err.statusCode = 404 -> "Player not found. Please check the tag and try again."
      [] err.statusCode = 429 -> "Too many requests. Please wait a moment and try again."
      [] err.statusCode = 400 -> "Invalid player tag format."
      [] err.statusCode = 0   -> "Unable to connect to server. Please check your connection."
      [] OTHER                -> err.message

\* a setter of useState: React drops the update of a component that has
\* unmounted
SetState(alive, cur, new) == IF alive THEN new ELSE cur

\* a continuation that never records the tag of a successful call
SettleForgetsTag(st, last, tag, res) ==
    IF res.ok
    THEN [state |-> [result |-> res.data, loading |-> FALSE, error |-> NoError],
          last  |-> last]
    ELSE [state |-> [result |-> NoTag, loading |-> FALSE, error |-> ErrorMessage(res)],
          last  |-> last]

\* usePlayerData: the timer callback's continuation after the await, as the
\* new [state, lastTag]
Settle(st, last, tag, res) ==
    IF res.ok
    THEN [state |-> [result |-> res.data, loading |-> FALSE, error |-> NoError],
          last  |-> tag]
    ELSE IF res.name = "AbortError"
    THEN [state |-> st, last |-> last]
    ELSE [state |-> [result |-> NoTag, loading |-> FALSE, error |-> ErrorMessage(res)],
          last  |-> last]

\* a clearTimeout that cancels nothing
ClearTimeoutNoop(ts, id) == ts

\* clearTimeout(id)
ClearTimeout(ts, id) == { t \in ts : t.id # id }

\* AbortController.abort() on the ref, when it holds one
Abort(ctl) == IF ctl = "null" THEN ctl ELSE "aborted"

\* The input without its leading and trailing blanks, read off its positions
Core(raw) ==
    LET idx == { i \in 1..Len(raw) : raw[i] # " " }
    IN  IF idx = {} THEN <<>>
        ELSE SubSeq(raw, CHOOSE i \in idx : \A j \in idx : i <= j,
                         CHOOSE i \in idx : \A j \in idx : i >= j)

\* no call of the latest search has settled
NoOutcome == [sid |-> 0, res |-> EmptyTagError]

\* the timer the ref points at is still pending
TimerPending == \E t \in timers : t.id = debounceTimerRef

\* history: the settlement of call sid is recorded when sid is the latest call
\* made on the hook, and otherwise leaves the record as it is
Outcome(sid, res) ==
    IF sid = Len(ops) THEN [sid |-> sid, res |-> res] ELSE lastOutcome

-----------------------------------------------------------------------------
(* sendChatMessageStream: text *)

DataPrefix == <<"d", "a", "t", "a", ":", " ">>
ContentOpen == <<"{", "\"", "c", "o", "n", "t", "e", "n", "t", "\"", ":", "\"">>
ErrorOpen == <<"{", "\"", "e", "r", "r", "o", "r", "\"", ":", "\"">>
StringClose == <<"\"", "}">>

\* String.prototype.startsWith
StartsWith(s, pre) == Len(s) >= Len(pre) /\ SubSeq(s, 1, Len(pre)) = pre

EndsWith(s, suf) ==
    Len(s) >= Len(suf) /\ SubSeq(s, Len(s) - Len(suf) + 1, Len(s)) = suf

\* String.prototype.slice(n)
Slice(s, n) == SubSeq(s, n + 1, Len(s))

\* String.prototype.split('\n')
RECURSIVE SplitLines(_)
SplitLines(s) ==
    IF \A i \in 1..Len(s) : s[i] # "\n" THEN <<s>>
    ELSE LET k == CHOOSE i \in 1..Len(s) :
                      s[i] = "\n" /\ \A j \in 1..(i - 1) : s[j] # "\n"
         IN  <<SubSeq(s, 1, k - 1)>> \o SplitLines(Slice(s, k))

\* the characters of a JSON string body the model uses: no quote, no escape
PlainText(s) == \A i \in 1..Len(s) : s[i] \notin {"\"", "\\", "\n"}

\* JSON.parse on the payloads of the wire format: {"content": string} and
\* {"error": string}. Any other text is a SyntaxError here; in the code a text
\* that is valid JSON of another shape has neither field and has no effect
\* either, like a text that fails to parse.
ObjectWith(open, s) ==
    /\ StartsWith(s, open)
    /\ EndsWith(s, StringClose)
    /\ Len(s) >= Len(open) + Len(StringClose)
    /\ PlainText(SubSeq(s, Len(open) + 1, Len(s) - Len(StringClose)))

FieldValue(open, s) == SubSeq(s, Len(open) + 1, Len(s) - Len(StringClose))

JsonParse(s) ==
    IF ObjectWith(ContentOpen, s)
    THEN [ok |-> TRUE, field |-> "content", value |-> FieldValue(ContentOpen, s)]
    ELSE IF ObjectWith(ErrorOpen, s)
    THEN [ok |-> TRUE, field |-> "error", value |-> FieldValue(ErrorOpen, s)]
    ELSE [ok |-> FALSE, field |-> "", value |-> <<>>]

\* JavaScript truthiness of a string field that may be absent
Truthy(p, f) == p.ok /\ p.field = f /\ p.value # <<>>

\* The for-loop body on one line: the onChunk arguments it produces and
\* whether line 197 threw. Whatever is thrown inside the inner try (the
\* SyntaxError of JSON.parse and the Error made from data.error alike) is
\* caught by the inner catch and logged, and the loop goes on.
HandleLine(line) ==
    IF ~ StartsWith(line, DataPrefix)
    THEN [chunks |-> <<>>, threw |-> FALSE]
    ELSE LET data == JsonParse(Slice(line, 6))
         IN  IF ~ data.ok THEN [chunks |-> <<>>, threw |-> FALSE]
             ELSE IF Truthy(data, "error") THEN [chunks |-> <<>>, threw |-> TRUE]
             ELSE IF Truthy(data, "content")
             THEN [chunks |-> <<data.value>>, threw |-> FALSE]
             ELSE [chunks |-> <<>>, threw |-> FALSE]

\* The for-loop over the lines of one decoded chunk
RECURSIVE HandleLines(_)
HandleLines(lines) ==
    IF lines = <<>> THEN [chunks |-> <<>>, threw |-> FALSE]
    ELSE LET h == HandleLine(Head(lines))
             t == HandleLines(Tail(lines))
         IN  [chunks |-> h.chunks \o t.chunks, threw |-> h.threw \/ t.threw]

-----------------------------------------------------------------------------
(* sendChatMessageStream: the server's side *)

\* One server-sent event: a data line and the blank line that ends the event
EventKinds == {"content", "error", "malformed"}
EventValues == { <<"x">>, <<"y">>, <<>> }

EventText(e) ==
    CASE e.kind = "content" ->
            DataPrefix \o ContentOpen \o e.value \o StringClose \o <<"\n", "\n">>
      [] e.kind = "error" ->
            DataPrefix \o ErrorOpen \o e.value \o StringClose \o <<"\n", "\n">>
      [] OTHER ->
            DataPrefix \o <<"{", "o", "o", "p", "s">> \o <<"\n", "\n">>

Events == { [kind |-> "content", value |-> v] : v \in EventValues }
          \cup { [kind |-> "error", value |-> <<"x">>],
                 [kind |-> "malformed", value |-> <<>>] }

RECURSIVE BodyText(_)
BodyText(es) == IF es = <<>> THEN <<>> ELSE EventText(Head(es)) \o BodyText(Tail(es))

Scripts == UNION { [1..n -> Events] : n \in 0..MaxEvents }

ResponseStatuses == {200, 500}

-----------------------------------------------------------------------------
(* sendChatMessageStream: operations *)

SInit ==
    /\ spc = "idle"
    /\ response = [ok |-> TRUE, status |-> 200]
    /\ rest = <<>>
    /\ events = <<>>
    /\ script = <<>>
    /\ errorFieldSeen = FALSE

ChunkEvent(v) == [cb |-> "chunk", arg |-> v]
CompleteEvent == [cb |-> "complete", arg |-> <<>>]
ErrorEvent(msg) == [cb |-> "error", arg |-> <<msg>>]

\* a status test that accepts every response
ResponseOkAlways(r) == TRUE

\* response.ok
ResponseOk(r) == r.ok

\* an outer catch that rethrows without onError
StreamCatchSilent(ev, msg) == ev

\* the outer catch: onError?.(apiError), then throw apiError
StreamCatch(ev, msg) == Append(ev, ErrorEvent(msg))

\* the call: fetch(url, ...) is issued
StreamStart ==
    /\ spc = "idle"
    /\ spc' = "fetching"
    /\ UNCHANGED <<response, rest, events, script, errorFieldSeen, nonStream>>

\* fetch rejects (no connection)
FetchReject ==
    /\ spc = "fetching"
    /\ events' = StreamCatch(events, "Failed to stream chat response")
    /\ spc' = "rejected"
    /\ UNCHANGED <<response, rest, script, errorFieldSeen, nonStream>>

\* fetch resolves with a response of status st whose body carries the events es
FetchResolve(st, es) ==
    /\ spc = "fetching"
    /\ response' = [ok |-> st \in 200..299, status |-> st]
    /\ script' = es
    /\ rest' = BodyText(es)
    /\ IF ResponseOk(response')
       THEN /\ spc' = "reading"
            /\ UNCHANGED events
       ELSE /\ events' = StreamCatch(events, "Failed to start streaming")
            /\ spc' = "rejected"
    /\ UNCHANGED <<errorFieldSeen, nonStream>>

\* reader.read() delivers the next n characters of the body as one chunk
\* (the body is ASCII here, so bytes and characters coincide)
ReadChunk(n) ==
    /\ spc = "reading"
    /\ n \in 1..Len(rest)
    /\ LET chunk == SubSeq(rest, 1, n)
           h     == HandleLines(SplitLines(chunk))
       IN  /\ events' = events \o [i \in 1..Len(h.chunks) |-> ChunkEvent(h.chunks[i])]
           /\ errorFieldSeen' = (errorFieldSeen \/ h.threw)
    /\ rest' = Slice(rest, n)
    /\ UNCHANGED <<spc, response, script, nonStream>>

\* reader.read() reports done: onComplete?.(), break
ReadDone ==
    /\ spc = "reading"
    /\ rest = <<>>
    /\ events' = Append(events, CompleteEvent)
    /\ spc' = "resolved"
    /\ UNCHANGED <<response, rest, script, errorFieldSeen, nonStream>>

\* reader.read() rejects (the connection drops while the body is read)
ReadReject ==
    /\ spc = "reading"
    /\ events' = StreamCatch(events, "Failed to stream chat response")
    /\ spc' = "rejected"
    /\ UNCHANGED <<response, rest, script, errorFieldSeen, nonStream>>

SNext ==
    \/ StreamStart
    \/ FetchReject
    \/ \E st \in ResponseStatuses, es \in Scripts : FetchResolve(st, es)
    \/ \E n \in 1..Len(rest) : ReadChunk(n)
    \/ ReadDone
    \/ ReadReject

-----------------------------------------------------------------------------
(* ChatInterface: handleSend and the callbacks it passes to the reader *)

CInit ==
    /\ messages = <<>>
    /\ isLoading = FALSE
    /\ streamingMessage = <<>>
    /\ closureStreamingMessage = <<>>

\* what the user typed into the input field
ChatInputs == { <<"h", "i">>, <<" ">> }

\* the content of the system turn of the onError callback (accents left out)
ChatErrorText ==
    <<"D", "e", "s", "o", "l", "e", ",", " ", "j", "e", " ", "r", "e", "n",
      "c", "o", "n", "t", "r", "e", " ", "d", "e", "s", " ", "d", "i", "f",
      "f", "i", "c", "u", "l", "t", "e", "s">>

UserTurns == Cardinality({ i \in 1..Len(messages) : messages[i].role = "user" })

\* prev + chunk, for the chunks of one read in order
RECURSIVE AppendChunks(_, _)
AppendChunks(prev, chunks) ==
    IF chunks = <<>> THEN prev
    ELSE AppendChunks(prev \o Head(chunks), Tail(chunks))

\* onChunk: setStreamingMessage(prev => prev + chunk)
ChatOnChunk(chunks) ==
    /\ streamingMessage' = AppendChunks(streamingMessage, chunks)
    /\ UNCHANGED <<messages, isLoading, closureStreamingMessage>>

\* onComplete: the assistant turn gets the streamingMessage of the closure
ChatOnComplete ==
    /\ messages' = Append(messages, [role |-> "assistant",
                                     content |-> closureStreamingMessage])
    /\ streamingMessage' = <<>>
    /\ isLoading' = FALSE
    /\ UNCHANGED closureStreamingMessage

\* onError: a system turn with the fixed text
ChatOnError ==
    /\ messages' = Append(messages, [role |-> "system", content |-> ChatErrorText])
    /\ streamingMessage' = <<>>
    /\ isLoading' = FALSE
    /\ UNCHANGED closureStreamingMessage

\* handleSend with inputValue = text: returns at once on blank input or while
\* loading; otherwise appends the user turn and calls sendChatMessageStream
HandleSend(text) ==
    /\ ~ (Trim(text) = <<>> \/ isLoading)
    /\ UserTurns < MaxSends
    /\ messages' = Append(messages, [role |-> "user", content |-> text])
    /\ isLoading' = TRUE
    /\ closureStreamingMessage' = streamingMessage
    /\ streamingMessage' = <<>>
    /\ spc' = "fetching"
    /\ response' = [ok |-> TRUE, status |-> 200]
    /\ rest' = <<>>
    /\ events' = <<>>
    /\ script' = <<>>
    /\ errorFieldSeen' = FALSE
    /\ UNCHANGED nonChat

\* the steps of sendChatMessageStream when ChatInterface is the caller: the
\* reader's step and, in the same step, the callback it invokes
ChatFetchReject ==
    /\ spc = "fetching"
    /\ events' = StreamCatch(events, "Failed to stream chat response")
    /\ spc' = "rejected"
    /\ ChatOnError
    /\ UNCHANGED <<response, rest, script, errorFieldSeen, nonChat>>

ChatFetchResolve(st, es) ==
    /\ spc = "fetching"
    /\ response' = [ok |-> st \in 200..299, status |-> st]
    /\ script' = es
    /\ rest' = BodyText(es)
    /\ IF ResponseOk(response')
       THEN /\ spc' = "reading"
            /\ UNCHANGED <<events, cvars>>
       ELSE /\ events' = StreamCatch(events, "Failed to start streaming")
            /\ spc' = "rejected"
            /\ ChatOnError
    /\ UNCHANGED <<errorFieldSeen, nonChat>>

ChatReadChunk(n) ==
    /\ spc = "reading"
    /\ n \in 1..Len(rest)
    /\ LET chunk == SubSeq(rest, 1, n)
           h     == HandleLines(SplitLines(chunk))
       IN  /\ events' = events \o [i \in 1..Len(h.chunks) |-> ChunkEvent(h.chunks[i])]
           /\ errorFieldSeen' = (errorFieldSeen \/ h.threw)
           /\ ChatOnChunk(h.chunks)
    /\ rest' = Slice(rest, n)
    /\ UNCHANGED <<spc, response, script, nonChat>>

ChatReadDone ==
    /\ spc = "reading"
    /\ rest = <<>>
    /\ events' = Append(events, CompleteEvent)
    /\ spc' = "resolved"
    /\ ChatOnComplete
    /\ UNCHANGED <<response, rest, script, errorFieldSeen, nonChat>>

ChatReadReject ==
    /\ spc = "reading"
    /\ events' = StreamCatch(events, "Failed to stream chat response")
    /\ spc' = "rejected"
    /\ ChatOnError
    /\ UNCHANGED <<response, rest, script, errorFieldSeen, nonChat>>

ChatNext ==
    \/ \E text \in ChatInputs : HandleSend(text)
    \/ ChatFetchReject
    \/ \E st \in ResponseStatuses, es \in Scripts : ChatFetchResolve(st, es)
    \/ \E n \in 1..Len(rest) : ChatReadChunk(n)
    \/ ChatReadDone
    \/ ChatReadReject

-----------------------------------------------------------------------------
(* useWebSocket: frames *)

FeedCap == 50

NoUser == "<null>"
Users == {"A", "B"}

PongText == <<"p", "o", "n", "g">>
TypeOpen == <<"{", "\"", "t", "y", "p", "e", "\"", ":", "\"">>
TimestampSep ==
    <<"\"", ",", "\"", "t", "i", "m", "e", "s", "t", "a", "m", "p", "\"", ":", "\"">>
ConnectionType == <<"c", "o", "n", "n", "e", "c", "t", "i", "o", "n">>
MilestoneType == <<"m", "i", "l", "e", "s", "t", "o", "n", "e">>

DigitChars == <<"0", "1", "2", "3", "4", "5", "6", "7", "8", "9">>

\* the decimal text of a natural number
RECURSIVE ToDigits(_)
ToDigits(n) ==
    IF n < 10 THEN <<DigitChars[n + 1]>>
    ELSE ToDigits(n \div 10) \o <<DigitChars[(n % 10) + 1]>>

\* a JSON frame as the server writes it
FrameText(type, timestamp) ==
    TypeOpen \o type \o TimestampSep \o timestamp \o StringClose

\* the characters of s before its first quote
RECURSIVE UntilQuote(_)
UntilQuote(s) ==
    IF s = <<>> \/ Head(s) = "\"" THEN <<>>
    ELSE <<Head(s)>> \o UntilQuote(Tail(s))

\* JSON.parse on the frames of the wire format, {"type": string,
\* "timestamp": string}; any other text is a SyntaxError
FrameParse(s) ==
    LET fail == [ok |-> FALSE, type |-> <<>>, timestamp |-> <<>>]
    IN  IF ~ StartsWith(s, TypeOpen) THEN fail
        ELSE LET a  == Slice(s, Len(TypeOpen))
                 ty == UntilQuote(a)
                 b  == Slice(a, Len(ty))
             IN  IF ~ StartsWith(b, TimestampSep) THEN fail
                 ELSE LET c  == Slice(b, Len(TimestampSep))
                          ts == UntilQuote(c)
                      IN  IF Slice(c, Len(ts)) = StringClose
                          THEN [ok |-> TRUE, type |-> ty, timestamp |-> ts]
                          ELSE fail

\* a frame cut short by the server
MalformedFrame == TypeOpen \o MilestoneType

\* The frames the server may send next; notifications are stamped with their
\* number in order of sending, so that order and identity can be observed
ServerFrames(n) ==
    { PongText,
      FrameText(ConnectionType, ToDigits(0)),
      MalformedFrame,
      FrameText(MilestoneType, ToDigits(n + 1)) }

IsNotificationFrame(data) ==
    LET p == FrameParse(data) IN p.ok /\ p.type # ConnectionType

\* Array.prototype.slice(0, n)
SliceTo(s, n) == SubSeq(s, 1, IF Len(s) < n THEN Len(s) ELSE n)

\* an updater without the slice
PrependUncapped(notification, prev) == <<notification>> \o prev

\* the updater of line 78: [notification, ...prev].slice(0, 50)
Prepend(notification, prev) == SliceTo(<<notification>> \o prev, FeedCap)

\* an onmessage that adds an entry for every frame, whatever it is
OnMessageKeepsAll(prev, data) ==
    LET p == FrameParse(data)
    IN  Prepend([type |-> p.type, timestamp |-> p.timestamp], prev)

\* an onmessage for which a frame that fails to parse empties the feed
OnMessageParseFatal(prev, data) ==
    IF data = PongText THEN prev
    ELSE LET p == FrameParse(data)
         IN  IF ~ p.ok THEN <<>>
             ELSE IF p.type = ConnectionType THEN prev
             ELSE Prepend([type |-> p.type, timestamp |-> p.timestamp], prev)

\* an onmessage without the test of line 76
OnMessageNoHandshakeTest(prev, data) ==
    IF data = PongText THEN prev
    ELSE LET p == FrameParse(data)
         IN  IF ~ p.ok THEN prev
             ELSE Prepend([type |-> p.type, timestamp |-> p.timestamp], prev)

\* onmessage: the feed after the frame data has been handled
OnMessageFeed(prev, data) ==
    IF data = PongText THEN prev
    ELSE LET p == FrameParse(data)
         IN  IF ~ p.ok THEN prev                     \* SyntaxError, caught and logged
             ELSE IF p.type = ConnectionType THEN prev
             ELSE Prepend([type |-> p.type, timestamp |-> p.timestamp], prev)

\* an updater that counts positions from 1
RemoveAtOneBased(prev, index) ==
    IF index \in 1..Len(prev)
    THEN SubSeq(prev, 1, index - 1) \o SubSeq(prev, index + 1, Len(prev))
    ELSE prev

\* the updater of removeNotification: prev.filter((_, i) => i !== index),
\* which drops the entry at the 0-based position index when there is one
RemoveAt(prev, index) ==
    IF index \in 0..(Len(prev) - 1)
    THEN SubSeq(prev, 1, index) \o SubSeq(prev, index + 2, Len(prev))
    ELSE prev

-----------------------------------------------------------------------------
(* useWebSocket: operations *)

WInit ==
    /\ userId = NoUser
    /\ hookMounted = TRUE
    /\ sockets = <<>>
    /\ ws = 0
    /\ isConnected = FALSE
    /\ reconnectTimeout = 0
    /\ reconnectTimers = {}
    /\ pingInterval = 0
    /\ pingTimers = {}
    /\ notifications = <<>>
    /\ pinged = {}
    /\ nReceived = 0
    /\ nEdits = 0
    /\ lastData = <<>>
    /\ receivedFor = <<>>

\* new WebSocket(wsUrl) either returns a socket or throws (SyntaxError for a
\* URL it rejects, SecurityError for a connection the page may not make)
ConstructorOutcomes == {"created", "threw"}

\* connect() of the render with user u: the sockets, ws.current and
\* isConnected after it, for the constructor outcome o
ConnectSockets(socks, u, o) ==
    IF u = NoUser \/ o = "threw" THEN socks
    ELSE Append(socks, [user |-> u, readyState |-> "connecting"])

ConnectWs(socks, cur, u, o) ==
    IF u = NoUser \/ o = "threw" THEN cur ELSE Len(socks) + 1

ConnectIsConnected(cur, u, o) ==
    IF u # NoUser /\ o = "threw" THEN FALSE ELSE cur

\* WebSocket.close(): the close event is delivered later
CloseSocket(sock) ==
    IF sock.readyState \in {"connecting", "open"}
    THEN [sock EXCEPT !.readyState = "closing"] ELSE sock

\* the effect's cleanup: the sockets, reconnect timers and intervals after it
CleanupSockets == IF ws # 0 THEN [sockets EXCEPT ![ws] = CloseSocket(@)] ELSE sockets
CleanupReconnect ==
    IF reconnectTimeout # 0
    THEN { t \in reconnectTimers : t.id # reconnectTimeout } ELSE reconnectTimers
CleanupPing == IF pingInterval # 0 THEN pingTimers \ {pingInterval} ELSE pingTimers

\* the userId prop changes to u: the old effect's cleanup runs, then the new
\* effect calls the new connect()
SetUser(u, o) ==
    /\ hookMounted
    /\ u # userId
    /\ Len(sockets) < MaxSockets
    /\ userId' = u
    /\ sockets' = ConnectSockets(CleanupSockets, u, o)
    /\ ws' = ConnectWs(CleanupSockets, 0, u, o)
    /\ isConnected' = ConnectIsConnected(isConnected, u, o)
    /\ reconnectTimers' = CleanupReconnect
    /\ pingTimers' = CleanupPing
    /\ UNCHANGED <<hookMounted, reconnectTimeout, pingInterval,
                   notifications, pinged, nReceived, nEdits, lastData,
                   receivedFor, nonChannel>>

\* the component unmounts: the effect's cleanup runs
UnmountHook ==
    /\ hookMounted
    /\ hookMounted' = FALSE
    /\ sockets' = CleanupSockets
    /\ ws' = 0
    /\ reconnectTimers' = CleanupReconnect
    /\ pingTimers' = CleanupPing
    /\ UNCHANGED <<userId, isConnected, reconnectTimeout, pingInterval,
                   notifications, pinged, nReceived, nEdits, lastData,
                   receivedFor, nonChannel>>

\* onopen of socket i
SocketOpen(i) ==
    /\ i \in 1..Len(sockets)
    /\ sockets[i].readyState = "connecting"
    /\ sockets' = [sockets EXCEPT ![i].readyState = "open"]
    /\ isConnected' = SetState(hookMounted, isConnected, TRUE)
    /\ pingInterval' = i
    /\ pingTimers' = pingTimers \cup {i}
    /\ UNCHANGED <<userId, hookMounted, ws, reconnectTimeout, reconnectTimers,
                   notifications, pinged, nReceived, nEdits, lastData,
                   receivedFor, nonChannel>>

\* onmessage of socket i with event.data = data
OnMessage(i, data) ==
    /\ i \in 1..Len(sockets)
    /\ sockets[i].readyState = "open"
    /\ notifications' =
           SetState(hookMounted, notifications, OnMessageFeed(notifications, data))
    /\ nReceived' = IF IsNotificationFrame(data) THEN nReceived + 1 ELSE nReceived
    /\ lastData' = data
    /\ receivedFor' = IF IsNotificationFrame(data)
                      THEN Append(receivedFor, sockets[i].user) ELSE receivedFor
    /\ UNCHANGED <<userId, hookMounted, sockets, ws, isConnected, reconnectTimeout,
                   reconnectTimers, pingInterval, pingTimers, pinged, nEdits,
                   nonChannel>>

\* onclose of socket i: the server closed it, the network failed, or the
\* close() of the cleanup completed
SocketClose(i) ==
    /\ i \in 1..Len(sockets)
    /\ sockets[i].readyState # "closed"
    /\ sockets' = [sockets EXCEPT ![i].readyState = "closed"]
    /\ isConnected' = SetState(hookMounted, isConnected, FALSE)
    /\ pingTimers' = IF pingInterval # 0 THEN pingTimers \ {pingInterval} ELSE pingTimers
    /\ pingInterval' = 0
    /\ reconnectTimeout' = i
    /\ reconnectTimers' = reconnectTimers \cup {[id |-> i, user |-> sockets[i].user]}
    /\ UNCHANGED <<userId, hookMounted, ws, notifications, pinged, nReceived,
                   nEdits, lastData, receivedFor, nonChannel>>

\* a reconnect timeout fires: connect() of the render that created the socket
ReconnectFire(t, o) ==
    /\ t \in reconnectTimers
    /\ Len(sockets) < MaxSockets
    /\ reconnectTimers' = reconnectTimers \ {t}
    /\ sockets' = ConnectSockets(sockets, t.user, o)
    /\ ws' = ConnectWs(sockets, ws, t.user, o)
    /\ isConnected' =
           SetState(hookMounted, isConnected, ConnectIsConnected(isConnected, t.user, o))
    /\ UNCHANGED <<userId, hookMounted, reconnectTimeout, pingInterval,
                   pingTimers, notifications, pinged, nReceived, nEdits, lastData,
                   receivedFor, nonChannel>>

\* a keep-alive interval ticks
PingTick(id) ==
    /\ id \in pingTimers
    /\ pinged' = IF ws # 0 /\ sockets[ws].readyState = "open"
                 THEN pinged \cup {ws} ELSE pinged
    /\ UNCHANGED <<userId, hookMounted, sockets, ws, isConnected, reconnectTimeout,
                   reconnectTimers, pingInterval, pingTimers, notifications,
                   nReceived, nEdits, lastData, receivedFor, nonChannel>>

\* clearNotifications()
ClearNotifications ==
    /\ hookMounted
    /\ nEdits < MaxEdits
    /\ notifications' = <<>>
    /\ nEdits' = nEdits + 1
    /\ UNCHANGED <<userId, hookMounted, sockets, ws, isConnected, reconnectTimeout,
                   reconnectTimers, pingInterval, pingTimers, pinged, nReceived,
                   lastData, receivedFor, nonChannel>>

\* removeNotification(index)
RemoveNotification(index) ==
    /\ hookMounted
    /\ nEdits < MaxEdits
    /\ notifications' = RemoveAt(notifications, index)
    /\ nEdits' = nEdits + 1
    /\ UNCHANGED <<userId, hookMounted, sockets, ws, isConnected, reconnectTimeout,
                   reconnectTimers, pingInterval, pingTimers, pinged, nReceived,
                   lastData, receivedFor, nonChannel>>

\* The feed of one session: the user logs in, the channel opens, frames
\* arrive, the user edits the feed
FeedNext ==
    \/ sockets = <<>> /\ SetUser("A", "created")
    \/ \E i \in 1..Len(sockets) : SocketOpen(i)
    \/ nReceived < MaxFrames /\
         \E i \in 1..Len(sockets), data \in ServerFrames(nReceived) : OnMessage(i, data)
    \/ ClearNotifications
    \/ \E index \in -1..Len(notifications) : RemoveNotification(index)

\* The channel's life: identifier changes, opens, closes, reconnects, pings
ChannelNext ==
    \/ \E u \in Users \cup {NoUser}, o \in ConstructorOutcomes : SetUser(u, o)
    \/ UnmountHook
    \/ \E i \in 1..Len(sockets) : SocketOpen(i)
    \/ \E i \in 1..Len(sockets) : SocketClose(i)
    \/ \E t \in reconnectTimers, o \in ConstructorOutcomes : ReconnectFire(t, o)
    \/ \E id \in pingTimers : PingTick(id)
    \/ nReceived < MaxChannelFrames /\
         \E i \in 1..Len(sockets), data \in ServerFrames(nReceived) : OnMessage(i, data)
    \/ ClearNotifications
    \/ \E index \in -1..Len(notifications) : RemoveNotification(index)

-----------------------------------------------------------------------------
(* usePlayerData: operations *)

QInit ==
    /\ qstate = InitialQState
    /\ lastTag = NoTag
    /\ abortController = "null"
    /\ debounceTimerRef = 0
    /\ timers = {}
    /\ inflight = {}
    /\ mounted = TRUE
    /\ pendingPromises = {}
    /\ ops = <<>>
    /\ dispatchLog = <<>>
    /\ lastOutcome = NoOutcome
    /\ lastCall = "none"
    /\ lastSuccess = NoTag

\* search(tag): the synchronous part, up to the setTimeout
SearchCall(raw) ==
    LET sid      == Len(ops) + 1
        cleared  == IF debounceTimerRef # 0
                    THEN ClearTimeout(timers, debounceTimerRef) ELSE timers
        cleanTag == Trim(raw)
    IN  /\ abortController' = Abort(abortController)
        /\ ops' = Append(ops, [op |-> "search", raw |-> raw,
                              quiet |-> TimerPending, busy |-> inflight # {}])
        /\ IF cleanTag = <<>>
           THEN /\ qstate' = [qstate EXCEPT !.error = ValidationMsg, !.loading = FALSE]
                /\ timers' = cleared
                /\ UNCHANGED <<debounceTimerRef, pendingPromises>>
           ELSE /\ qstate' = [qstate EXCEPT !.loading = TRUE, !.error = NoError]
                /\ timers' = cleared \cup {[id |-> sid, tag |-> cleanTag]}
                /\ debounceTimerRef' = sid
                /\ pendingPromises' = pendingPromises \cup {sid}
        /\ lastOutcome' = NoOutcome
        /\ UNCHANGED <<lastTag, inflight, mounted, dispatchLog>>

Search(raw) ==
    /\ mounted
    /\ Len(ops) < MaxOps
    /\ SearchCall(raw)
    /\ lastCall' = "search"
    /\ UNCHANGED <<lastSuccess, nonQuery>>

\* refresh(): search(lastTagRef.current) when the ref holds a tag, and
\* nothing otherwise
Refresh ==
    /\ mounted
    /\ Len(ops) < MaxOps
    /\ IF lastTag # NoTag
       THEN SearchCall(lastTag)
       ELSE UNCHANGED <<qstate, lastTag, abortController, debounceTimerRef, timers,
                        inflight, mounted, pendingPromises, ops, dispatchLog,
                        lastOutcome>>
    /\ lastCall' = "refresh"
    /\ UNCHANGED <<lastSuccess, nonQuery>>

\* reset()
Reset ==
    /\ mounted
    /\ Len(ops) < MaxOps
    /\ abortController' = Abort(abortController)
    /\ timers' = IF debounceTimerRef # 0
                 THEN ClearTimeout(timers, debounceTimerRef) ELSE timers
    /\ lastTag' = NoTag
    /\ qstate' = InitialQState
    /\ ops' = Append(ops, [op |-> "reset", raw |-> <<>>,
                          quiet |-> TimerPending, busy |-> inflight # {}])
    /\ lastOutcome' = NoOutcome
    /\ lastCall' = "reset"
    /\ lastSuccess' = NoTag
    /\ UNCHANGED <<debounceTimerRef, inflight, mounted, pendingPromises,
                   dispatchLog, nonQuery>>

\* the debounce timer fires: new AbortController, getPlayerAnalysis(cleanTag).
\* A tag that cleans to nothing is rejected by getPlayerAnalysis before any
\* fetch; the rejection is handled in the same turn of the event loop.
TimerFire(t) ==
    /\ t \in timers
    /\ timers' = timers \ {t}
    /\ abortController' = "live"
    /\ dispatchLog' = Append(dispatchLog, [sid |-> t.id, tag |-> t.tag])
    /\ IF CleanTag(t.tag) = <<>>
       THEN LET s == Settle(qstate, lastTag, t.tag, EmptyTagError)
            IN  /\ qstate' = SetState(mounted, qstate, s.state)
                /\ lastTag' = s.last
                /\ lastOutcome' = Outcome(t.id, EmptyTagError)
                /\ pendingPromises' = pendingPromises \ {t.id}
                /\ UNCHANGED inflight
       ELSE /\ inflight' = inflight \cup
                              {[sid |-> t.id, tag |-> t.tag, url |-> CleanTag(t.tag)]}
            /\ UNCHANGED <<qstate, lastTag, lastOutcome, pendingPromises>>
    /\ UNCHANGED <<debounceTimerRef, mounted, ops, lastCall, lastSuccess, nonQuery>>

\* the fetch of call c ends with outcome o; the code after the await runs
Resolve(c, o) ==
    /\ c \in inflight
    /\ inflight' = inflight \ {c}
    /\ pendingPromises' = pendingPromises \ {c.sid}
    /\ LET res == GetPlayerAnalysis(c.url, o)
           s   == Settle(qstate, lastTag, c.tag, res)
       IN  /\ qstate' = SetState(mounted, qstate, s.state)
           /\ lastTag' = s.last
           /\ lastOutcome' = Outcome(c.sid, res)
           /\ lastSuccess' = IF res.ok THEN Core(ops[c.sid].raw) ELSE lastSuccess
    /\ UNCHANGED <<abortController, debounceTimerRef, timers, mounted, ops,
                   dispatchLog, lastCall, nonQuery>>

\* the effect's cleanup on unmount
Unmount ==
    /\ mounted
    /\ Len(ops) < MaxOps
    /\ mounted' = FALSE
    /\ ops' = Append(ops, [op |-> "unmount", raw |-> <<>>,
                          quiet |-> TimerPending, busy |-> inflight # {}])
    /\ abortController' = Abort(abortController)
    /\ timers' = IF debounceTimerRef # 0
                 THEN ClearTimeout(timers, debounceTimerRef) ELSE timers
    /\ lastCall' = "unmount"
    /\ UNCHANGED <<qstate, lastTag, debounceTimerRef, inflight, pendingPromises,
                   dispatchLog, lastOutcome, lastSuccess, nonQuery>>

QNext ==
    \/ \E raw \in RawInputs : Search(raw)
    \/ Refresh
    \/ Reset
    \/ \E t \in timers : TimerFire(t)
    \/ \E c \in inflight, o \in FetchOutcomes : Resolve(c, o)
    \/ Unmount

Init == QInit /\ SInit /\ CInit /\ WInit

SpecQuery == Init /\ [][QNext]_vars

-----------------------------------------------------------------------------
(* usePlayerData: properties *)

IsSearch(i) == ops[i].op = "search"
NonEmptySearch(i) == IsSearch(i) /\ Core(ops[i].raw) # <<>>
EmptySearch(i) == IsSearch(i) /\ Core(ops[i].raw) = <<>>
Quiescent == timers = {} /\ inflight = {}
DispatchesOf(s) == { i \in 1..Len(dispatchLog) : dispatchLog[i].sid = s }

\* C1 (last write wins): after search(x) then search(y), both non-empty, y
\* issued while x's timer was pending or x's call was in flight, once nothing
\* is pending any more the state {result, loading, error, lastAcceptedQuery}
\* is the outcome of y's call alone.
C1_LastWriteWins ==
    ( /\ Len(ops) = 2
      /\ NonEmptySearch(1) /\ NonEmptySearch(2)
      /\ (ops[2].quiet \/ ops[2].busy)
      /\ Quiescent
      /\ lastOutcome.sid = 2 )
    => LET y == Settle(InitialQState, NoTag, Core(ops[2].raw), lastOutcome.res)
       IN  qstate = y.state /\ lastTag = y.last

\* C2 (cancellation is a no-op): the settlement of a call that a later search
\* (empty or not) has superseded changes none of result, error, loading,
\* lastAcceptedQuery.
C2_SupersededCallIsNoOp ==
    [][ \A c \in inflight :
          ( /\ c \notin inflight'
            /\ \E j \in (c.sid + 1)..Len(ops) : IsSearch(j) )
          => UNCHANGED <<qstate, lastTag>> ]_vars

\* C3 (debounce collapse): of non-empty searches that each follow the previous
\* one while its timer is pending, only the last is dispatched: exactly once,
\* when its timer fires, with its trimmed input.
C3_DebounceCollapse ==
    \A s \in 1..Len(ops) :
        NonEmptySearch(s) =>
            IF s < Len(ops) /\ ops[s + 1].quiet
            THEN DispatchesOf(s) = {}
            ELSE IF \E t \in timers : t.id = s
            THEN DispatchesOf(s) = {}
            ELSE /\ Cardinality(DispatchesOf(s)) = 1
                 /\ \A i \in DispatchesOf(s) : dispatchLog[i].tag = Core(ops[s].raw)

\* three searches in one quiet period, one call, for the last one's trimmed input
C3_Witness ==
    /\ Len(ops) = 3
    /\ \A s \in 1..3 : NonEmptySearch(s)
    /\ ops[2].quiet /\ ops[3].quiet
    /\ ops[1].raw # ops[3].raw
    /\ ops[3].raw = <<" ", "b", " ">>
    /\ dispatchLog = << [sid |-> 3, tag |-> <<"b">>] >>

\* C4 (empty input): a search whose input is empty after trimming sets the
\* validation error and loading=false at once, leaves no debounce timer
\* pending, and dispatches no call, then or later.
C4_EmptyInputRejected ==
    /\ [][ ( /\ Len(ops') = Len(ops) + 1
             /\ ops'[Len(ops')].op = "search"
             /\ Core(ops'[Len(ops')].raw) = <<>> )
           => ( /\ qstate'.error = ValidationMsg
                /\ qstate'.loading = FALSE
                /\ timers' = {}
                /\ dispatchLog' = dispatchLog
                /\ inflight' = inflight ) ]_vars
    /\ [] ( /\ \A i \in 1..Len(dispatchLog) : ~ EmptySearch(dispatchLog[i].sid)
            /\ (Len(ops) > 0 /\ EmptySearch(Len(ops))) => timers = {} )

\* a blank search arrived while a timer was pending, and cancelled it
C4_Witness ==
    /\ Len(ops) = 2
    /\ NonEmptySearch(1)
    /\ EmptySearch(2) /\ ops[2].raw = <<" ">> /\ ops[2].quiet
    /\ timers = {} /\ dispatchLog = <<>>
    /\ qstate.error = ValidationMsg /\ qstate.loading = FALSE

\* C15 (reset): as long as reset() is the latest call made on the hook,
\* result, error and lastAcceptedQuery are cleared and loading is false,
\* whatever was pending or in flight when it was called.
C15_ResetHolds ==
    (Len(ops) > 0 /\ ops[Len(ops)].op = "reset") =>
        qstate = InitialQState /\ lastTag = NoTag

\* C16 (query teardown): once the component has unmounted, no step
\* dispatches a network call and no step writes result, loading, error or
\* lastAcceptedQuery.
C16_QueryTeardown ==
    [][ ~ mounted => /\ dispatchLog' = dispatchLog
                     /\ qstate' = qstate
                     /\ lastTag' = lastTag ]_vars

\* C18 (refresh): a call of refresh() is search(q) for the trimmed input q of
\* the search that succeeded last since the last reset(), and when there is
\* no such search it changes no state, starts no timer and dispatches no call.
C18_RefreshIsSearchOfLastSuccess ==
    [][ (lastCall' = "refresh" /\ (lastCall # "refresh" \/ ops' # ops))
        => IF lastSuccess # NoTag
           THEN SearchCall(lastSuccess)
           ELSE UNCHANGED <<qstate, lastTag, abortController, debounceTimerRef,
                            timers, inflight, ops, dispatchLog>> ]_vars

\* search(" b ") succeeded and refresh() has started a search for "b"
C18_Witness ==
    /\ lastCall = "refresh"
    /\ Len(ops) = 2
    /\ ops[1].raw = <<" ", "b", " ">>
    /\ ops[2].op = "search" /\ ops[2].raw = <<"b">>
    /\ qstate = [result |-> <<"B">>, loading |-> TRUE, error |-> NoError]
    /\ timers = {[id |-> 2, tag |-> <<"b">>]}
    /\ dispatchLog = << [sid |-> 1, tag |-> <<"b">>] >>


\* C23 (failure classification): a step in which the call of the current
\* search fails leaves result cleared, loading false, lastAcceptedQuery as
\* it was, and error set to the message of the failure's class: the fixed
\* texts for status 404, 429, 400 and 0, the failure's own message otherwise.
C23_FailureClassified ==
    [][ (lastOutcome' # lastOutcome /\ lastOutcome'.sid # 0 /\ ~ lastOutcome'.res.ok)
        => LET st  == lastOutcome'.res.statusCode
               msg == IF st = 404
                      THEN "Player not found. Please check the tag and try again."
                      ELSE IF st = 429
                      THEN "Too many requests. Please wait a moment and try again."
                      ELSE IF st = 400 THEN "Invalid player tag format."
                      ELSE IF st = 0
                      THEN "Unable to connect to server. Please check your connection."
                      ELSE lastOutcome'.res.message
           IN  /\ qstate' = [result |-> NoTag, loading |-> FALSE, error |-> msg]
               /\ lastTag' = lastTag ]_vars

\* search("a") succeeded, then the call of search(" b ") failed with 404:
\* the result of "a" is gone, its tag is kept
C23_Witness ==
    /\ Len(ops) = 2
    /\ lastOutcome.sid = 2
    /\ lastOutcome.res.statusCode = 404
    /\ lastTag = <<"a">>
    /\ qstate = [result |-> NoTag, loading |-> FALSE,
                 error |-> "Player not found. Please check the tag and try again."]

\* C27 (promises settle): every promise returned by search() settles. A
\* promise that has not settled can only be settled by its debounce timer's
\* callback, so in every state each unsettled promise still has its timer
\* pending or its call in flight.
C27_SearchPromiseSettles ==
    \A sid \in pendingPromises :
        \/ \E t \in timers : t.id = sid
        \/ \E c \in inflight : c.sid = sid

\* the number of the most recent search call, 0 when there is none
LatestSearch ==
    LET S == { i \in 1..Len(ops) : IsSearch(i) }
    IN  IF S = {} THEN 0 ELSE CHOOSE i \in S : \A j \in S : j <= i
ActiveSearch(i) ==
    \/ \E t \in timers : t.id = i
    \/ \E c \in inflight : c.sid = i

\* C28 (loading while the latest search is active): whenever the most recent
\* search call had non-empty input, no reset() followed it, and its debounce
\* timer is pending or its call is in flight, loading is true and error is
\* null; and loading goes from true to false only in a step that is the
\* completion of the most recent search, an empty search, or reset().
C28_LoadingWhileLatestActive ==
    /\ []( ( /\ LatestSearch # 0
             /\ NonEmptySearch(LatestSearch)
             /\ \A j \in (LatestSearch + 1)..Len(ops) : ops[j].op # "reset"
             /\ ActiveSearch(LatestSearch) )
           => qstate.loading /\ qstate.error = NoError )
    /\ [][ (qstate.loading /\ ~ qstate'.loading)
           => \/ /\ Len(ops') = Len(ops) + 1
                 /\ \/ ops'[Len(ops')].op = "reset"
                    \/ /\ ops'[Len(ops')].op = "search"
                       /\ Core(ops'[Len(ops')].raw) = <<>>
              \/ /\ lastOutcome' # lastOutcome
                 /\ lastOutcome'.sid = LatestSearch ]_vars

-----------------------------------------------------------------------------
(* sendChatMessageStream: specification and properties *)

SpecStream == Init /\ [][SNext]_vars

ChunkArgs ==
    LET cs == SelectSeq(events, LAMBDA e : e.cb = "chunk")
    IN  [i \in 1..Len(cs) |-> cs[i].arg]

Terminals == { i \in 1..Len(events) : events[i].cb \in {"complete", "error"} }
Terminated == spc \in {"resolved", "rejected"}

\* C5 (stream ordering under fragmentation): when a body made of
\* 'data: {"content": ...}' events (non-empty contents) has been read to its
\* end, however it was cut into chunks, the onChunk arguments are the content
\* values of the body, in order.
C5_StreamOrdering ==
    ( /\ spc = "resolved"
      /\ \A i \in 1..Len(script) :
            script[i].kind = "content" /\ script[i].value # <<>> )
    => ChunkArgs = [i \in 1..Len(script) |-> script[i].value]

\* C6 (termination exclusivity): at most one of onComplete/onError is ever
\* invoked, at most once, nothing is invoked after it, and an invocation
\* that has ended has invoked exactly one of them.
C6_TerminationExclusive ==
    /\ Cardinality(Terminals) <= 1
    /\ Terminals \subseteq {Len(events)}
    /\ Terminated <=> Cardinality(Terminals) = 1

\* a stream that delivered a chunk and then completed
C6_Witness ==
    /\ spc = "resolved"
    /\ events = <<ChunkEvent(<<"x">>), CompleteEvent>>

\* C7 (error payload): once a data line has parsed to an object with an
\* error field, the reader has stopped: onError was the last callback, and
\* onComplete was not invoked.
C7_ErrorFieldStopsReader ==
    errorFieldSeen =>
        /\ spc = "rejected"
        /\ events # <<>>
        /\ events[Len(events)].cb = "error"
        /\ \A i \in 1..Len(events) : events[i].cb # "complete"

\* C8 (non-2xx response): for a response that is not successful the only
\* callback ever invoked is onError, once, as the invocation ends.
C8_FailedResponseOnlyErrors ==
    (spc \notin {"idle", "fetching"} /\ ~ response.ok) =>
        /\ spc = "rejected"
        /\ events = <<ErrorEvent("Failed to start streaming")>>

\* a 500 response whose body nevertheless carries a content event
C8_Witness ==
    /\ spc = "rejected"
    /\ response = [ok |-> FALSE, status |-> 500]
    /\ script = << [kind |-> "content", value |-> <<"x">>] >>
    /\ events = <<ErrorEvent("Failed to start streaming")>>

\* the connection dropped while the body was read
ReadFailed ==
    /\ events # <<>>
    /\ events[Len(events)] = ErrorEvent("Failed to stream chat response")

\* C17 (no throw for expected failures): an invocation that has ended after a
\* non-2xx response, or after a payload with an error field and without a
\* failure of the connection, has invoked onError and has returned normally:
\* its promise is not rejected.
C17_ExpectedFailuresDoNotReject ==
    (Terminated /\ (~ response.ok \/ errorFieldSeen) /\ ~ ReadFailed) =>
        /\ spc = "resolved"
        /\ \E i \in 1..Len(events) : events[i].cb = "error"

\* the values of the content events of es that onChunk is owed, in order
\* (an empty content is not delivered: line 200 tests its truthiness)
RECURSIVE ContentOwed(_)
ContentOwed(es) ==
    IF es = <<>> THEN <<>>
    ELSE IF Head(es).kind = "content" /\ Head(es).value # <<>>
    THEN <<Head(es).value>> \o ContentOwed(Tail(es))
    ELSE ContentOwed(Tail(es))

\* the part of the body after its first malformed data line
RECURSIVE AfterMalformed(_)
AfterMalformed(es) ==
    IF es = <<>> THEN <<>>
    ELSE IF Head(es).kind = "malformed" THEN Tail(es)
    ELSE AfterMalformed(Tail(es))

\* q is the end of p
IsSuffix(q, p) ==
    Len(q) <= Len(p) /\ SubSeq(p, Len(p) - Len(q) + 1, Len(p)) = q

\* C22 (malformed data line): when a body that holds a data line that fails
\* to parse has been read to its end, onError was not invoked for it, every
\* well-formed content line after it was delivered through onChunk, in
\* order, and onComplete came last.
C22_MalformedLineSkipped ==
    ( /\ spc = "resolved"
      /\ \E k \in 1..Len(script) : script[k].kind = "malformed"
      /\ \A k \in 1..Len(script) : script[k].kind # "error" )
    => /\ \A i \in 1..Len(events) : events[i].cb # "error"
       /\ IsSuffix(ContentOwed(AfterMalformed(script)), ChunkArgs)
       /\ events[Len(events)] = CompleteEvent

-----------------------------------------------------------------------------
(* ChatInterface: specification and properties *)

SpecChat == Init /\ [][ChatNext]_vars

InvocationActive == spc \in {"fetching", "reading"}

\* C29 (chat transcript and submit control): when a stream has completed, the
\* assistant turn appended to the transcript has as content the chunks that
\* onChunk delivered during that invocation, concatenated in order; and
\* isLoading, which disables the submit control, is true exactly while an
\* invocation is active.
C29_AssistantTurnIsChunks ==
    /\ spc = "resolved"
          => /\ messages # <<>>
             /\ messages[Len(messages)] =
                    [role |-> "assistant", content |-> AppendChunks(<<>>, ChunkArgs)]
    /\ isLoading <=> InvocationActive

SpecFeed == Init /\ [][FeedNext]_vars

SpecChannel == Init /\ [][ChannelNext]_vars

\* the n-th notification the server sent, as the feed holds it
Sent(n) == [type |-> MilestoneType, timestamp |-> ToDigits(n)]

\* C9 (capacity): the feed never holds more than 50 entries, whatever frames,
\* removals and clears happened; and as long as nothing was removed or
\* cleared, after N notifications it is the min(N, 50) most recent ones,
\* most recent first.
C9_Capacity ==
    /\ Len(notifications) <= 50
    /\ nEdits = 0 =>
          notifications =
              [i \in 1..(IF nReceived < 50 THEN nReceived ELSE 50) |->
                  Sent(nReceived - i + 1)]

\* 52 notifications were received: the feed holds the 52nd down to the 3rd
C9_Witness ==
    /\ nReceived = 52
    /\ nEdits = 0
    /\ Len(notifications) = 50
    /\ notifications[1] = Sent(52)
    /\ notifications[50] = Sent(3)

\* C10 (keep-alive suppression): a step in which the frame "pong" is
\* delivered leaves the feed as it was.
C10_PongIgnored ==
    [][ (lastData' = PongText /\ lastData # PongText)
        => notifications' = notifications ]_vars

\* a pong was delivered to a feed that holds notifications
C10_Witness ==
    /\ lastData = PongText
    /\ Len(notifications) = 2

\* the handshake frame of the server
ConnectionFrame == FrameText(ConnectionType, ToDigits(0))

\* C11 (handshake suppression): a step in which a frame of type "connection"
\* is delivered leaves the feed as it was and the state Connected; and when
\* one milestone was delivered among any pong, connection and malformed
\* frames and nothing was removed, the feed holds exactly that milestone.
C11_HandshakeSuppressed ==
    /\ [][ (lastData' = ConnectionFrame /\ lastData # ConnectionFrame)
           => /\ notifications' = notifications
              /\ isConnected /\ isConnected' ]_vars
    /\ []((nReceived = 1 /\ nEdits = 0) => notifications = <<Sent(1)>>)

\* a connection frame was delivered to a feed that holds one milestone
C11_Witness ==
    /\ lastData = ConnectionFrame
    /\ nReceived = 1
    /\ nEdits = 0
    /\ notifications = <<Sent(1)>>
    /\ isConnected

\* a channel for the user u is open or opening
LiveChannelFor(u) ==
    \E i \in 1..Len(sockets) :
        sockets[i].user = u /\ sockets[i].readyState \in {"connecting", "open"}

\* a reconnect attempt for the user u is scheduled
ReconnectPendingFor(u) == \E t \in reconnectTimers : t.user = u

\* C12 (reconnect liveness): while the identifier is set and the manager is
\* not torn down, whenever the channel has closed or failed, failures while
\* opening it included, a connection attempt for the same identifier is
\* scheduled: at every moment there is a channel open or opening for the
\* identifier, or a reconnect timer pending for it.
C12_ReconnectLiveness ==
    (hookMounted /\ userId # NoUser) =>
        LiveChannelFor(userId) \/ ReconnectPendingFor(userId)

\* C13 (channel teardown): once the manager of an identifier was torn down,
\* by the end of the session or by a change of the identifier, no keep-alive
\* timer and no reconnect timer of it is pending, in every later state, and
\* it makes no connection attempt: every pending timer and every new channel
\* belongs to the mounted manager of the current identifier.
C13_TeardownLeavesNothing ==
    /\ [](\A t \in reconnectTimers : hookMounted /\ t.user = userId)
    /\ [](\A id \in pingTimers : hookMounted /\ sockets[id].user = userId)
    /\ [][ Len(sockets') > Len(sockets)
           => hookMounted' /\ sockets'[Len(sockets')].user = userId' ]_vars

\* C14 (absent identifier): while the identifier is absent the manager holds
\* no open or opening channel and shows Disconnected, and no step taken
\* while it stays absent creates a channel.
C14_NoChannelWithoutUser ==
    /\ []((hookMounted /\ userId = NoUser) =>
            /\ \A i \in 1..Len(sockets) :
                  sockets[i].readyState \notin {"connecting", "open"}
            /\ ~ isConnected)
    /\ [][ (hookMounted /\ userId = NoUser /\ userId' = NoUser)
           => Len(sockets') = Len(sockets) ]_vars

\* C19 (close): every step in which the channel of the mounted manager's
\* identifier closes ends with Disconnected shown, no keep-alive timer
\* active and exactly one reconnect attempt pending, however many channels
\* were opened and lost before.
C19_CloseLeavesOneReconnect ==
    [][ \A i \in 1..Len(sockets) :
          ( /\ hookMounted
            /\ i = ws
            /\ sockets[i].user = userId
            /\ sockets[i].readyState # "closed"
            /\ sockets'[i].readyState = "closed" )
          => ( /\ ~ isConnected'
               /\ pingTimers' = {}
               /\ Cardinality(reconnectTimers') = 1 ) ]_vars

\* C20 (keep-alive ownership): in every state a keep-alive timer is active
\* exactly when the current channel is open, there is at most one keep-alive
\* timer, and every step that sends "ping" sends it on an open channel.
C20_KeepAliveOwnership ==
    /\ []((pingTimers # {}) <=> (ws # 0 /\ sockets[ws].readyState = "open"))
    /\ [](Cardinality(pingTimers) <= 1)
    /\ [][ \A i \in pinged' \ pinged : sockets[i].readyState = "open" ]_vars

\* the text of a frame that is not "pong" and that JSON.parse rejects
BrokenFrame == <<"{", "\"", "t", "y", "p", "e", "\"", ":", "\"",
                 "m", "i", "l", "e", "s", "t", "o", "n", "e">>

\* C21 (malformed frame): a step in which a frame that is not "pong" and
\* fails to parse is delivered leaves the feed and the connection state as
\* they were; and every step in which a notification frame is delivered,
\* right after such a frame or in any other state, puts that notification
\* at the head of the feed, before the entries the feed held.
C21_MalformedFrameSkipped ==
    /\ [][ (lastData' = BrokenFrame /\ lastData # BrokenFrame)
           => notifications' = notifications /\ isConnected' = isConnected ]_vars
    /\ [][ nReceived' = nReceived + 1
           => /\ notifications' # <<>>
              /\ notifications'[1] = Sent(nReceived')
              /\ \A i \in 2..Len(notifications') :
                    notifications'[i] = notifications[i - 1] ]_vars

\* a malformed frame was delivered to a feed that holds two notifications
C21_Witness ==
    /\ nReceived = 2
    /\ nEdits = 0
    /\ lastData = BrokenFrame
    /\ notifications = <<Sent(2), Sent(1)>>
    /\ isConnected

\* the feed f without the entry at the 0-based position i, the others in
\* their order
Without(f, i) ==
    [j \in 1..(Len(f) - 1) |-> IF j <= i THEN f[j] ELSE f[j + 1]]

\* C24 (feed edits): clearNotifications() leaves the feed empty;
\* removeNotification(i) with i a position of the feed leaves the feed
\* without its i-th entry, the others in their order, and with any other i
\* leaves it as it was; neither changes the connection state.
C24_FeedEdits ==
    /\ [][ ClearNotifications
           => notifications' = <<>> /\ isConnected' = isConnected ]_vars
    /\ [][ \A index \in -1..Len(notifications) :
             RemoveNotification(index)
             => /\ notifications' =
                      IF index >= 0 /\ index < Len(notifications)
                      THEN Without(notifications, index) ELSE notifications
                /\ isConnected' = isConnected ]_vars

\* the second of three notifications was removed
C24_Witness ==
    /\ nReceived = 3
    /\ nEdits = 1
    /\ notifications = <<Sent(3), Sent(1)>>
    /\ isConnected

\* the channels that are open or opening
LiveChannels ==
    { i \in 1..Len(sockets) : sockets[i].readyState \in {"connecting", "open"} }

\* C25 (one channel, for the current identifier): in every state at most one
\* channel is open or opening, and it is addressed to the current
\* identifier.
C25_OneChannelForCurrentUser ==
    /\ Cardinality(LiveChannels) <= 1
    /\ \A i \in LiveChannels : sockets[i].user = userId

\* ws.current is an open channel
CurrentOpen == ws # 0 /\ sockets[ws].readyState = "open"

\* C26 (published flag): while the hook is mounted isConnected is true
\* exactly when the current channel is open, and the close event of a
\* channel other than the current one, delivered while the current one is
\* open, leaves the flag as it was.
C26_FlagFollowsCurrentChannel ==
    /\ [](hookMounted => (isConnected <=> CurrentOpen))
    /\ [][ \A i \in 1..Len(sockets) :
             ( /\ hookMounted /\ CurrentOpen /\ i # ws
               /\ sockets[i].readyState # "closed"
               /\ sockets'[i].readyState = "closed" )
             => isConnected' = isConnected ]_vars

\* C30 (feed isolation across identifiers): while the hook is mounted, every
\* notification in the published feed was received on a channel of the
\* current identifier; after a change from A to B or to null nothing that
\* was received for A is in the feed.
C30_FeedIsolation ==
    hookMounted =>
        \A k \in 1..Len(notifications) :
            \A n \in 1..nReceived :
                notifications[k] = Sent(n) => receivedFor[n] = userId

=============================================================================
